---------------------------- MODULE Spec2Model ----------------------------
(***************************************************************************)
(* Model of the "cont" primitive of tbb_future_cont: cont_base (a          *)
(* lock-free successor list anchored on one tagged atomic pointer) and     *)
(* spawn_when_ready (the join gate).  The repository holds three copies    *)
(* of this code that differ in two places:                                 *)
(*                                                                         *)
(*   "tbbtest" src/tbbtest/main.cpp                                        *)
(*             try_register_successor retries its CAS in a loop;           *)
(*             spawn_when_ready always performs the bulk add_ref_count.    *)
(*   "example" src/sugar/define_task_block_example.h                       *)
(*             same try_register_successor; the bulk add_ref_count is      *)
(*             guarded by num_inputs_already_ok > 0.                       *)
(*   "sugar"   src/sugar/main.cpp                                          *)
(*             try_register_successor does one compare_exchange_strong     *)
(*             and returns its result; guarded bulk add_ref_count.         *)
(*                                                                         *)
(* The variable `variant' says which copy a behaviour runs.                *)
(*                                                                         *)
(* Threads.  One thread per task calls spawn_when_ready on it, one thread  *)
(* per cont calls set_ready on it.  Every atomic operation of the code     *)
(* (load, compare_exchange, add_ref_count, decrement_ref_count) is one     *)
(* step; the thread-local work that follows it is folded into that step.   *)
(*                                                                         *)
(* Pointers.  A cont_node* is a natural number: NULL is 0, nodes live at   *)
(* even addresses, and the least significant bit is the "ready" tag, as    *)
(* in the code.  Except in LifetimeSpec, the storage of a cont_node is     *)
(* taken to stay valid during the broadcast.                               *)
(*                                                                         *)
(* Specifications.  Spec is the join machinery alone, FairSpec adds the     *)
(* fairness of running threads.  ObservedSpec records which conts were     *)
(* ready at each call of spawn_when_ready.  TwiceSpec adds one more        *)
(* invocation of set_ready on a cont.  ValueSpec adds the value slot of    *)
(* cont<T> (emplace by the cont's producer, with assertions compiled in)   *)
(* and the execution of spawned tasks, which read their conts.             *)
(* LifetimeSpec splits the notify loop into the decrement and the read of  *)
(* node->next, and has the scheduler free a task, with the nodes embedded  *)
(* in it, once the task has been executed.                                 *)
(***************************************************************************)
EXTENDS Integers, Sequences, FiniteSets, TLC

\* Bounds of the model.
NumTasks == 2
NumConts == 2
MaxInputs == 2

Tasks == 1..NumTasks
Conts == 1..NumConts

\* The invocations of set_ready: setter c, for c in Conts, is the invocation
\* every cont gets from its producer; setter NumConts + 1 is one more
\* invocation on the first cont, made from another thread or later.
Setters == 1..(NumConts + 1)
SetterCont(s) == ((s - 1) % NumConts) + 1
Variants == {"tbbtest", "example", "sugar"}
LoopVariants == {"tbbtest", "example"}

NULL == 0
NoTask == 0

\* The values producers emplace (c->emplace(1337)), and what a read of storage
\* that holds no object may also produce.
Values == {1337, 1338}
Indeterminate == 0

\* &nodes[cont_i] of task t (cont_i counted from 1): an aligned address.
NodeAddr(t, i) == 2 * ((t - 1) * MaxInputs + i)
NodeAddrs == {NodeAddr(t, i) : t \in Tasks, i \in 1..MaxInputs}

\* The argument lists spawn_when_ready is called with: 0..MaxInputs distinct conts.
RECURSIVE SeqsOfLen(_)
SeqsOfLen(n) ==
    IF n = 0 THEN {<<>>}
    ELSE {Append(s, c) : s \in SeqsOfLen(n - 1), c \in Conts}
Distinct(s) == \A i, j \in 1..Len(s) : i # j => s[i] # s[j]
InputLists == {s \in UNION {SeqsOfLen(n) : n \in 0..MaxInputs} : Distinct(s)}

VARIABLES
    variant,                \* which copy of the code runs
    conts,                  \* conts[t]: the conts array passed for task t
    _head,                  \* _head[c]: cont_base::_head, a tagged pointer
    _has_value,             \* _has_value[c]: cont<T>::_has_value
    _storage,               \* _storage[c]: the T objects alive in cont<T>::_storage, oldest first
    node_task,              \* cont_node::task, by node address
    node_next,              \* cont_node::next, by node address
    ref_count,              \* tbb::task reference count of each task
    spawned,                \* number of tbb::task::spawn calls made on each task
    executed,               \* number of times the scheduler ran execute() of each task
    received,               \* what the last execute() of each task read from its conts
    jpc,                    \* position of the thread in spawn_when_ready(t, ...)
    cont_i,                 \* spawn_when_ready: loop index (from 1)
    num_inputs_already_ok,  \* spawn_when_ready: local counter
    reg_old_head,           \* try_register_successor: local old_head
    spc,                    \* position of setter s in SetterCont(s).set_ready()
    old_head,               \* set_ready: local old_head
    node,                   \* set_ready: the notify loop's cursor
    reg_result,             \* history: what try_register_successor returned per node
    notified,               \* history: decrements a broadcast made through each node
    ready_at_call           \* history: the conts that were ready when spawn_when_ready(t, ...) was called

contVars == <<_head, node_task, node_next>>
valVars == <<_has_value, _storage>>
execVars == <<executed, received>>
taskVars == <<ref_count, spawned>>
joinVars == <<jpc, cont_i, num_inputs_already_ok, reg_old_head>>
setVars == <<spc, old_head, node>>
histVars == <<reg_result, notified, ready_at_call>>
vars == <<variant, conts, contVars, valVars, taskVars, execVars, joinVars, setVars, histVars>>

----------------------------------------------------------------------------
\* Pure helpers of cont_base.

\* ((intptr_t)p & 1) != 0
TagBit(p) == p % 2 # 0

\* (cont_node*)((intptr_t)old_head | 1)
ReadyHead(p) == IF p % 2 = 0 THEN p + 1 ELSE p

\* cont_base::is_ready
is_ready(c) == TagBit(_head[c])

\* Mutant of CasMatches: the exchange is made whatever _head holds (a plain store).
CasMatchesAlways(current, expected) == TRUE

\* Mutant of CasMatches: the exchange never finds the value it expects.
CasMatchesNever(current, expected) == FALSE

\* The comparison a compare_exchange makes between _head and `expected'.
CasMatches(current, expected) == current = expected

\* Mutant of RetriesFailedCas: no copy retries, a failed CAS is returned.
RetriesFailedCasNowhere(v) == FALSE

\* The looping copies use compare_exchange_weak inside for(;;); src/sugar/main.cpp
\* returns the result of a single compare_exchange_strong.
RetriesFailedCas(v) == v \in LoopVariants

\* compare_exchange_weak may fail spuriously; compare_exchange_strong may not.
RegisterCasIsWeak(v) == v \in LoopVariants

\* Mutant of InitialRefs: one reference too few.
InitialRefsOneLess(n) == n - 1

\* t.add_ref_count(num_conts): one reference for each input.
InitialRefs(n) == n

\* Mutants of BulkGuard: every copy unguarded; every copy guarded.
BulkGuardNever(v, k) == TRUE
BulkGuardEverywhere(v, k) == k > 0

\* Whether spawn_when_ready performs the bulk add_ref_count(-k).
BulkGuard(v, k) == v = "tbbtest" \/ k > 0

\* Mutant of BulkDelta: the inputs that were already ready are not subtracted.
BulkDeltaNothing(k) == 0

\* The amount the bulk add_ref_count adds.
BulkDelta(k) == 0 - k

\* Mutant of FirstNode: the notify loop starts one node too late.
FirstNodeSkipped(p) == IF p = NULL THEN NULL ELSE node_next[p]

\* The node the notify loop starts from.
FirstNode(p) == p

----------------------------------------------------------------------------
Init ==
    /\ variant \in Variants
    /\ conts \in [Tasks -> InputLists]
    /\ _head = [c \in Conts |-> NULL]
    /\ _has_value = [c \in Conts |-> FALSE]
    /\ _storage = [c \in Conts |-> <<>>]
    /\ node_task = [n \in NodeAddrs |-> NoTask]
    /\ node_next = [n \in NodeAddrs |-> NULL]
    /\ ref_count = [t \in Tasks |-> 0]
    /\ spawned = [t \in Tasks |-> 0]
    /\ executed = [t \in Tasks |-> 0]
    /\ received = [t \in Tasks |-> <<>>]
    /\ jpc = [t \in Tasks |-> "call"]
    /\ cont_i = [t \in Tasks |-> 1]
    /\ num_inputs_already_ok = [t \in Tasks |-> 0]
    /\ reg_old_head = [t \in Tasks |-> NULL]
    /\ spc = [s \in Setters |-> "idle"]
    /\ old_head = [s \in Setters |-> NULL]
    /\ node = [s \in Setters |-> NULL]
    /\ reg_result = [n \in NodeAddrs |-> "none"]
    /\ notified = [n \in NodeAddrs |-> 0]
    /\ ready_at_call = [t \in Tasks |-> {}]

num_conts(t) == Len(conts[t])
\* conts[cont_i] and &nodes[cont_i] of the running spawn_when_ready(t, ...)
CurCont(t) == conts[t][cont_i[t]]
CurNode(t) == NodeAddr(t, cont_i[t])

----------------------------------------------------------------------------
\* spawn_when_ready

\* t.add_ref_count(num_conts); num_inputs_already_ok = 0; cont_i = 0
SpawnWhenReadyEnter(t) ==
    /\ jpc[t] = "call"
    /\ ref_count' = [ref_count EXCEPT ![t] = @ + InitialRefs(num_conts(t))]
    /\ num_inputs_already_ok' = [num_inputs_already_ok EXCEPT ![t] = 0]
    /\ cont_i' = [cont_i EXCEPT ![t] = 1]
    /\ jpc' = [jpc EXCEPT ![t] = IF num_conts(t) = 0 THEN "bulk" ELSE "load"]
    /\ UNCHANGED <<variant, conts, valVars, execVars, contVars, spawned, reg_old_head, setVars,
                   reg_result, notified>>

\* The call of spawn_when_ready(t, ...).
SpawnWhenReadyCall(t) ==
    /\ SpawnWhenReadyEnter(t)
    /\ UNCHANGED ready_at_call

\* The same call, with the conts of the argument list that are ready at that
\* moment recorded in the history variable ready_at_call.
SpawnWhenReadyCallObserved(t) ==
    /\ SpawnWhenReadyEnter(t)
    /\ ready_at_call' = [ready_at_call EXCEPT
           ![t] = {c \in Conts : is_ready(c) /\ \E i \in 1..num_conts(t) : conts[t][i] = c}]

\* try_register_successor returned r to the loop of spawn_when_ready (its local
\* old_head is gone): if (!r) num_inputs_already_ok++; cont_i++; loop test.
ReturnToLoop(t, r) ==
    /\ reg_result' = [reg_result EXCEPT ![CurNode(t)] = IF r THEN "true" ELSE "false"]
    /\ num_inputs_already_ok' =
           [num_inputs_already_ok EXCEPT ![t] = IF r THEN @ ELSE @ + 1]
    /\ cont_i' = [cont_i EXCEPT ![t] = @ + 1]
    /\ jpc' = [jpc EXCEPT ![t] = IF cont_i[t] + 1 > num_conts(t) THEN "bulk" ELSE "load"]
    /\ reg_old_head' = [reg_old_head EXCEPT ![t] = NULL]

\* new_head = c; new_head->task = t (on entry, the node is still private);
\* old_head = _head.load(); if (old_head & 1) return false; new_head->next = old_head
TryRegisterLoad(t) ==
    /\ jpc[t] = "load"
    /\ node_task' = [node_task EXCEPT ![CurNode(t)] = t]
    /\ LET h == _head[CurCont(t)] IN
         IF TagBit(h)
         THEN /\ ReturnToLoop(t, FALSE)
              /\ UNCHANGED node_next
         ELSE /\ node_next' = [node_next EXCEPT ![CurNode(t)] = h]
              /\ reg_old_head' = [reg_old_head EXCEPT ![t] = h]
              /\ jpc' = [jpc EXCEPT ![t] = "cas"]
              /\ UNCHANGED <<cont_i, num_inputs_already_ok, reg_result>>
    /\ UNCHANGED <<variant, conts, valVars, execVars, _head, taskVars, setVars, notified, ready_at_call>>

\* _head.compare_exchange(old_head, new_head) succeeded: return true
TryRegisterCasSuccess(t) ==
    /\ jpc[t] = "cas"
    /\ CasMatches(_head[CurCont(t)], reg_old_head[t])
    /\ _head' = [_head EXCEPT ![CurCont(t)] = CurNode(t)]
    /\ ReturnToLoop(t, TRUE)
    /\ UNCHANGED <<variant, conts, valVars, execVars, node_task, node_next, taskVars, setVars, notified,
                   ready_at_call>>

\* _head.compare_exchange(old_head, new_head) failed: _head differs from old_head,
\* or the weak form failed spuriously.  The looping copies go round the for(;;);
\* src/sugar/main.cpp returns the false.
TryRegisterCasFail(t) ==
    /\ jpc[t] = "cas"
    /\ \/ ~CasMatches(_head[CurCont(t)], reg_old_head[t])
       \/ RegisterCasIsWeak(variant)
    /\ IF RetriesFailedCas(variant)
       THEN /\ jpc' = [jpc EXCEPT ![t] = "load"]
            /\ UNCHANGED <<cont_i, num_inputs_already_ok, reg_old_head, reg_result>>
       ELSE ReturnToLoop(t, FALSE)
    /\ UNCHANGED <<variant, conts, valVars, execVars, contVars, taskVars, setVars, notified, ready_at_call>>

\* if (t.add_ref_count(-num_inputs_already_ok) == 0) tbb::task::spawn(t);
\* in src/sugar/ only if (num_inputs_already_ok > 0)
BulkSubtract(t) ==
    /\ jpc[t] = "bulk"
    /\ IF BulkGuard(variant, num_inputs_already_ok[t])
       THEN LET rc == ref_count[t] + BulkDelta(num_inputs_already_ok[t]) IN
              /\ ref_count' = [ref_count EXCEPT ![t] = rc]
              /\ spawned' = [spawned EXCEPT ![t] = IF rc = 0 THEN @ + 1 ELSE @]
       ELSE UNCHANGED <<ref_count, spawned>>
    /\ jpc' = [jpc EXCEPT ![t] = "done"]
    /\ UNCHANGED <<variant, conts, valVars, execVars, contVars, cont_i, num_inputs_already_ok,
                   reg_old_head, setVars, histVars>>

----------------------------------------------------------------------------
\* cont_base::set_ready, run by setter s on the cont SetterCont(s)

\* assert(!is_ready())
SetReadyCall(s) ==
    /\ spc[s] = "idle"
    /\ spc' = [spc EXCEPT ![s] = IF is_ready(SetterCont(s)) THEN "assert_failed" ELSE "load"]
    /\ UNCHANGED <<variant, conts, valVars, execVars, contVars, taskVars, joinVars, old_head, node, histVars>>

\* old_head = _head.load(); ready_head = old_head | 1
SetReadyLoad(s) ==
    /\ spc[s] = "load"
    /\ old_head' = [old_head EXCEPT ![s] = _head[SetterCont(s)]]
    /\ spc' = [spc EXCEPT ![s] = "cas"]
    /\ UNCHANGED <<variant, conts, valVars, execVars, contVars, taskVars, joinVars, node, histVars>>

\* _head.compare_exchange_weak(old_head, ready_head) succeeded: break; node = old_head
SetReadyCasSuccess(s) ==
    /\ spc[s] = "cas"
    /\ CasMatches(_head[SetterCont(s)], old_head[s])
    /\ _head' = [_head EXCEPT ![SetterCont(s)] = ReadyHead(old_head[s])]
    /\ node' = [node EXCEPT ![s] = FirstNode(old_head[s])]
    /\ spc' = [spc EXCEPT ![s] = "notify"]
    /\ UNCHANGED <<variant, conts, valVars, execVars, node_task, node_next, taskVars, joinVars,
                   old_head, histVars>>

\* _head.compare_exchange_weak(old_head, ready_head) failed (a successor was
\* added since the load, or spuriously): go round the for(;;)
SetReadyCasFail(s) ==
    /\ spc[s] = "cas"
    /\ spc' = [spc EXCEPT ![s] = "load"]
    /\ UNCHANGED <<variant, conts, valVars, execVars, contVars, taskVars, joinVars, old_head, node, histVars>>

\* node->task read through a pointer that has its tag bit set (one byte past
\* a cont_node, or address 1): undefined behaviour.  The build either faults
\* on the read, or calls decrement_ref_count through whatever the misaligned
\* read produced: it faults there, or it decrements memory that may be some
\* task's ref count (and spawns that task on zero).  What the process does
\* after that is not followed.
SetReadyNotifyTagged(s) ==
    \/ /\ spc' = [spc EXCEPT ![s] = "fault"]
       /\ UNCHANGED <<node, old_head, taskVars, notified>>
    \/ \E t \in Tasks :
         LET rc == ref_count[t] - 1
         IN /\ ref_count' = [ref_count EXCEPT ![t] = rc]
            /\ spawned' = [spawned EXCEPT ![t] = IF rc = 0 THEN @ + 1 ELSE @]
            /\ spc' = [spc EXCEPT ![s] = "corrupted"]
            /\ UNCHANGED <<node, old_head, notified>>

\* One turn of the notify loop: node != NULL test; decrement_ref_count of
\* node->task, spawn if it returned 0; node = node->next.  When the loop ends
\* set_ready returns and its locals are gone.
SetReadyNotify(s) ==
    /\ spc[s] = "notify"
    /\ IF node[s] = NULL
       THEN /\ spc' = [spc EXCEPT ![s] = "done"]
            /\ old_head' = [old_head EXCEPT ![s] = NULL]
            /\ UNCHANGED <<node, taskVars, notified>>
       ELSE IF TagBit(node[s])
       THEN SetReadyNotifyTagged(s)
       ELSE LET n == node[s]
                t == node_task[n]
                rc == ref_count[t] - 1
            IN /\ ref_count' = [ref_count EXCEPT ![t] = rc]
               /\ spawned' = [spawned EXCEPT ![t] = IF rc = 0 THEN @ + 1 ELSE @]
               /\ notified' = [notified EXCEPT ![n] = @ + 1]
               /\ node' = [node EXCEPT ![s] = node_next[n]]
               /\ UNCHANGED <<spc, old_head>>
    /\ UNCHANGED <<variant, conts, valVars, execVars, contVars, joinVars, reg_result, ready_at_call>>

----------------------------------------------------------------------------
\* cont<T>: emplace and operator*; the execution of a spawned task

\* (**this).~T(): the object the storage holds is destroyed.
Destroyed(st) == SubSeq(st, 1, Len(st) - 1)

\* Mutant of EmplaceStorage: the old value is not destroyed first.
EmplaceStorageLeaky(hv, st, v) == Append(st, v)

\* if (_has_value) (**this).~T(); new (&_storage) T(v)
EmplaceStorage(hv, st, v) == Append(IF hv THEN Destroyed(st) ELSE st, v)

\* assert(!is_ready()) of emplace
EmplaceAllowed(c) == ~is_ready(c)

\* c.emplace(v), called by the producer of c (the thread of setter c) when it
\* is not inside set_ready.  The producer runs it alone, so it is one step.
Emplace(c, v) ==
    /\ spc[c] \in {"idle", "done"}
    /\ IF EmplaceAllowed(c)
       THEN /\ _storage' = [_storage EXCEPT ![c] = EmplaceStorage(_has_value[c], @, v)]
            /\ _has_value' = [_has_value EXCEPT ![c] = TRUE]
            /\ UNCHANGED spc
       ELSE /\ spc' = [spc EXCEPT ![c] = "emplace_assert_failed"]
            /\ UNCHANGED valVars
    /\ UNCHANGED <<variant, conts, contVars, taskVars, execVars, joinVars,
                   old_head, node, histVars>>

\* **c: the object in _storage; when none was constructed the read is of
\* uninitialised storage and may produce anything.
Deref(c) ==
    IF _storage[c] # <<>>
    THEN {_storage[c][Len(_storage[c])]}
    ELSE Values \cup {Indeterminate}

\* The scheduler runs execute() of a spawned task, which reads **c of each of
\* its conts (TaskC::execute, the lambda of with(...).run).
TaskExecute(t) ==
    /\ executed[t] < spawned[t]
    /\ executed' = [executed EXCEPT ![t] = @ + 1]
    /\ \E r \in [1..num_conts(t) -> Values \cup {Indeterminate}] :
        /\ \A i \in 1..num_conts(t) : r[i] \in Deref(conts[t][i])
        /\ received' = [received EXCEPT ![t] = r]
    /\ UNCHANGED <<variant, conts, contVars, valVars, taskVars, joinVars, setVars, histVars>>

----------------------------------------------------------------------------
\* The notify loop of set_ready with the lifetime of the nodes: a cont_node is
\* a member of its task (TaskC::cnodes, cont_task_runner::nodes), and the
\* scheduler destroys a task when its execute() has returned.

\* The task in which node n is embedded.
NodeOwner(n) == (((n \div 2) - 1) \div MaxInputs) + 1

\* execute() of t has returned NULL: the scheduler has freed the task, and
\* with it its nodes.
TaskFreed(t) == executed[t] > 0

\* node != NULL test; node->task->decrement_ref_count(), spawn(*node->task) if
\* it returned 0.  When node is NULL the loop ends and set_ready returns.
SetReadyVisit(s) ==
    /\ spc[s] = "notify"
    /\ IF node[s] = NULL
       THEN /\ spc' = [spc EXCEPT ![s] = "done"]
            /\ old_head' = [old_head EXCEPT ![s] = NULL]
            /\ UNCHANGED <<node, taskVars, notified>>
       ELSE LET n == node[s]
                t == node_task[n]
                rc == ref_count[t] - 1
            IN /\ ref_count' = [ref_count EXCEPT ![t] = rc]
               /\ spawned' = [spawned EXCEPT ![t] = IF rc = 0 THEN @ + 1 ELSE @]
               /\ notified' = [notified EXCEPT ![n] = @ + 1]
               /\ spc' = [spc EXCEPT ![s] = "advance"]
               /\ UNCHANGED <<node, old_head>>
    /\ UNCHANGED <<variant, conts, valVars, execVars, contVars, joinVars, reg_result,
                   ready_at_call>>

\* node = node->next, the loop's increment.  When the task that holds the node
\* has been freed this reads freed memory, undefined behaviour: the build
\* reads the value that was there and goes on, or faults, or reads whatever
\* the memory holds now, after which the process is not followed.
SetReadyAdvance(s) ==
    /\ spc[s] = "advance"
    /\ \/ /\ node' = [node EXCEPT ![s] = node_next[node[s]]]
          /\ spc' = [spc EXCEPT ![s] = "notify"]
       \/ /\ TaskFreed(NodeOwner(node[s]))
          /\ \E outcome \in {"fault", "corrupted"} : spc' = [spc EXCEPT ![s] = outcome]
          /\ UNCHANGED node
    /\ UNCHANGED <<variant, conts, valVars, execVars, contVars, taskVars, joinVars,
                   old_head, histVars>>

----------------------------------------------------------------------------
Next ==
    \/ \E t \in Tasks : SpawnWhenReadyCall(t)
    \/ \E t \in Tasks : TryRegisterLoad(t)
    \/ \E t \in Tasks : TryRegisterCasSuccess(t)
    \/ \E t \in Tasks : TryRegisterCasFail(t)
    \/ \E t \in Tasks : BulkSubtract(t)
    \/ \E c \in Conts : SetReadyCall(c)
    \/ \E c \in Conts : SetReadyLoad(c)
    \/ \E c \in Conts : SetReadyCasSuccess(c)
    \/ \E c \in Conts : SetReadyCasFail(c)
    \/ \E c \in Conts : SetReadyNotify(c)

Spec == Init /\ [][Next]_vars

\* The same program with the calls of spawn_when_ready observed.
ObservedNext ==
    \/ \E t \in Tasks : SpawnWhenReadyCallObserved(t)
    \/ \E t \in Tasks : TryRegisterLoad(t)
    \/ \E t \in Tasks : TryRegisterCasSuccess(t)
    \/ \E t \in Tasks : TryRegisterCasFail(t)
    \/ \E t \in Tasks : BulkSubtract(t)
    \/ \E c \in Conts : SetReadyCall(c)
    \/ \E c \in Conts : SetReadyLoad(c)
    \/ \E c \in Conts : SetReadyCasSuccess(c)
    \/ \E c \in Conts : SetReadyCasFail(c)
    \/ \E c \in Conts : SetReadyNotify(c)

ObservedSpec == Init /\ [][ObservedNext]_vars

\* The program in which set_ready is invoked twice on a cont, the two
\* invocations in any order and overlap.  A failed assertion or a fault ends
\* the process, and a process whose memory was corrupted is not followed.
Halted ==
    \E s \in Setters :
        spc[s] \in {"assert_failed", "emplace_assert_failed", "fault", "corrupted"}
TwiceNext ==
    \/ \E t \in Tasks : ~Halted /\ SpawnWhenReadyCall(t)
    \/ \E t \in Tasks : ~Halted /\ TryRegisterLoad(t)
    \/ \E t \in Tasks : ~Halted /\ TryRegisterCasSuccess(t)
    \/ \E t \in Tasks : ~Halted /\ TryRegisterCasFail(t)
    \/ \E t \in Tasks : ~Halted /\ BulkSubtract(t)
    \/ \E s \in Setters : ~Halted /\ SetReadyCall(s)
    \/ \E s \in Setters : ~Halted /\ SetReadyLoad(s)
    \/ \E s \in Setters : ~Halted /\ SetReadyCasSuccess(s)
    \/ \E s \in Setters : ~Halted /\ SetReadyCasFail(s)
    \/ \E s \in Setters : ~Halted /\ SetReadyNotify(s)

\* The joins these behaviours start from: src/tbbtest/main.cpp.
TwiceInit ==
    /\ Init
    /\ variant = "tbbtest"

TwiceSpec == TwiceInit /\ [][TwiceNext]_vars

\* The program with the lifetime of its tasks: spawned tasks are executed and
\* freed, and the notify loop of set_ready takes its decrement and its read
\* of node->next as two steps.  src/sugar/define_task_block_example.h, whose
\* spawn_when_ready does not touch a task that may already have been spawned.
LifetimeNext ==
    \/ \E t \in Tasks : ~Halted /\ SpawnWhenReadyCall(t)
    \/ \E t \in Tasks : ~Halted /\ TryRegisterLoad(t)
    \/ \E t \in Tasks : ~Halted /\ TryRegisterCasSuccess(t)
    \/ \E t \in Tasks : ~Halted /\ TryRegisterCasFail(t)
    \/ \E t \in Tasks : ~Halted /\ BulkSubtract(t)
    \/ \E t \in Tasks : ~Halted /\ TaskExecute(t)
    \/ \E c \in Conts : ~Halted /\ SetReadyCall(c)
    \/ \E c \in Conts : ~Halted /\ SetReadyLoad(c)
    \/ \E c \in Conts : ~Halted /\ SetReadyCasSuccess(c)
    \/ \E c \in Conts : ~Halted /\ SetReadyCasFail(c)
    \/ \E c \in Conts : ~Halted /\ SetReadyVisit(c)
    \/ \E c \in Conts : ~Halted /\ SetReadyAdvance(c)

LifetimeInit ==
    /\ Init
    /\ variant = "example"

LifetimeSpec == LifetimeInit /\ [][LifetimeNext]_vars

\* Every step of spawn_when_ready(t, ...) after the call itself.
JoinerStep(t) ==
    \/ TryRegisterLoad(t)
    \/ TryRegisterCasSuccess(t)
    \/ TryRegisterCasFail(t)
    \/ BulkSubtract(t)

\* Every step of c.set_ready() after the call itself.
SetterStep(c) ==
    \/ SetReadyLoad(c)
    \/ SetReadyCasSuccess(c)
    \/ SetReadyCasFail(c)
    \/ SetReadyNotify(c)

\* A thread that has entered a function keeps running (weak fairness of its
\* steps), and compare_exchange_weak does not fail spuriously for ever: a CAS
\* whose expected value is again and again the value of _head eventually
\* succeeds (strong fairness of the successful CAS).  Whether and when
\* spawn_when_ready and set_ready are called is left to the callers.
Fairness ==
    /\ \A t \in Tasks : WF_vars(JoinerStep(t)) /\ SF_vars(TryRegisterCasSuccess(t))
    /\ \A c \in Conts : WF_vars(SetterStep(c)) /\ SF_vars(SetReadyCasSuccess(c))

\* The joins the fair behaviours start from: the looping copies, every task
\* waiting on at least one cont, and the first task on MaxInputs conts in
\* index order (the other tasks take any list, so conts are shared in either
\* order).
Ascending(s) == \A i \in 1..(Len(s) - 1) : s[i] < s[i + 1]
FairInit ==
    /\ Init
    /\ variant \in LoopVariants
    /\ \A t \in Tasks : Len(conts[t]) >= 1
    /\ Len(conts[1]) = MaxInputs
    /\ Ascending(conts[1])

FairSpec == FairInit /\ [][Next]_vars /\ Fairness

\* The program with its values: producers emplace into their conts and call
\* set_ready in any order, and spawned tasks are executed.
ValueNext ==
    \/ \E t \in Tasks : ~Halted /\ SpawnWhenReadyCall(t)
    \/ \E t \in Tasks : ~Halted /\ TryRegisterLoad(t)
    \/ \E t \in Tasks : ~Halted /\ TryRegisterCasSuccess(t)
    \/ \E t \in Tasks : ~Halted /\ TryRegisterCasFail(t)
    \/ \E t \in Tasks : ~Halted /\ BulkSubtract(t)
    \/ \E t \in Tasks : ~Halted /\ TaskExecute(t)
    \/ \E c \in Conts, v \in Values : ~Halted /\ Emplace(c, v)
    \/ \E c \in Conts : ~Halted /\ SetReadyCall(c)
    \/ \E c \in Conts : ~Halted /\ SetReadyLoad(c)
    \/ \E c \in Conts : ~Halted /\ SetReadyCasSuccess(c)
    \/ \E c \in Conts : ~Halted /\ SetReadyCasFail(c)
    \/ \E c \in Conts : ~Halted /\ SetReadyNotify(c)

\* These behaviours start from the joins of FairInit.
ValueInit == FairInit

ValueSpec == ValueInit /\ [][ValueNext]_vars

----------------------------------------------------------------------------
\* Vocabulary of the properties.

\* The task and the index a node address belongs to, and the cont it is for.
OwnerOf(n) == (((n \div 2) - 1) \div MaxInputs) + 1
IndexOf(n) == (((n \div 2) - 1) % MaxInputs) + 1
InUse(n) == IndexOf(n) <= num_conts(OwnerOf(n))
ContOf(n) == conts[OwnerOf(n)][IndexOf(n)]
NodesOn(c) == {n \in NodeAddrs : InUse(n) /\ ContOf(n) = c}
InputsOf(t) == {conts[t][i] : i \in 1..num_conts(t)}

\* The pointer without its tag bit, and the nodes linked from _head[c].
Untag(p) == p - (p % 2)
RECURSIVE ChainFrom(_, _)
ChainFrom(p, fuel) ==
    IF p = NULL \/ fuel = 0 THEN {} ELSE {p} \cup ChainFrom(node_next[p], fuel - 1)
Chain(c) == ChainFrom(Untag(_head[c]), Cardinality(NodeAddrs))

AllInputsReady(t) == \A c \in InputsOf(t) : is_ready(c)
JoinFinished(t) == jpc[t] = "done" /\ \A c \in InputsOf(t) : spc[c] = "done"

----------------------------------------------------------------------------
\* C1: in src/tbbtest/main.cpp a task joined on N >= 1 conts is spawned at
\* most once over the whole run.
C1_SpawnedAtMostOnce ==
    variant = "tbbtest" =>
        \A t \in Tasks : num_conts(t) >= 1 => spawned[t] <= 1

\* C2: in src/sugar/define_task_block_example.h a task joined on N >= 1 conts
\* is never spawned twice, and once spawn_when_ready has returned and every
\* input's set_ready has returned it has been spawned exactly once.
C2_SpawnedExactlyOnce ==
    variant = "example" =>
        \A t \in Tasks : num_conts(t) >= 1 =>
            /\ spawned[t] <= 1
            /\ JoinFinished(t) => spawned[t] = 1

\* C2 witness: every registration succeeded, every cont was closed and the
\* broadcast spawned the task before the registering thread reached its bulk
\* subtraction, which then left the task alone.
C2_Witness ==
    /\ variant = "example"
    /\ \E t \in Tasks :
        /\ num_conts(t) = MaxInputs
        /\ JoinFinished(t)
        /\ num_inputs_already_ok[t] = 0
        /\ spawned[t] = 1

\* C3: in the looping copies a spawned task has all its input conts ready.
C3_SpawnedOnlyWhenAllReady ==
    variant \in LoopVariants =>
        \A t \in Tasks : spawned[t] > 0 => AllInputsReady(t)

\* C3 witness: two tasks that share a cont have both been spawned, one of
\* them joined on several conts.
C3_Witness ==
    /\ variant \in LoopVariants
    /\ \E t, u \in Tasks :
        /\ t # u
        /\ num_conts(t) >= 2
        /\ InputsOf(t) \cap InputsOf(u) # {}
        /\ spawned[t] > 0
        /\ spawned[u] > 0

\* The state a false return of the looping try_register_successor leaves.
C4_FalseReturnState ==
    variant \in LoopVariants =>
        \A n \in NodeAddrs : reg_result[n] = "false" =>
            /\ is_ready(ContOf(n))
            /\ n \notin Chain(ContOf(n))
            /\ notified[n] = 0

\* The step taken from a state in which a registration's CAS is lost to
\* another successor (the cont still open): it is a retry.
C4_LostCasRetries ==
    variant \in LoopVariants =>
        \A t \in Tasks :
            (/\ jpc[t] = "cas"
             /\ ~TagBit(_head[CurCont(t)])
             /\ ~CasMatches(_head[CurCont(t)], reg_old_head[t]))
            => /\ reg_result'[CurNode(t)] = "none"
               /\ jpc'[t] \in {"cas", "load"}

\* C4: in the looping copies a try_register_successor that returned false
\* saw the cont ready, left its node out of the chain and its node is never
\* notified; a CAS lost to another registering successor while the cont is
\* still open makes the caller go round the loop and never return false.
C4_FalseOnlyWhenReady == []C4_FalseReturnState /\ [][C4_LostCasRetries]_vars

\* C4 witness: a registration returned false on a cont whose chain holds
\* another task's node, while a registration on an open cont is about to lose
\* its CAS to a successor that registered after its load.
C4_Witness ==
    /\ variant \in LoopVariants
    /\ \E n \in NodeAddrs :
        /\ reg_result[n] = "false"
        /\ Chain(ContOf(n)) # {}
    /\ \E t \in Tasks :
        /\ jpc[t] = "cas"
        /\ ~TagBit(_head[CurCont(t)])
        /\ ~CasMatches(_head[CurCont(t)], reg_old_head[t])

\* C5: in src/sugar/main.cpp a try_register_successor that returned false
\* did so on a ready cont.
C5_SugarFalseOnlyWhenReady ==
    variant = "sugar" =>
        \A n \in NodeAddrs : reg_result[n] = "false" => is_ready(ContOf(n))

\* C6: in src/sugar/main.cpp a spawned task has all its input conts ready.
C6_SugarSpawnedOnlyWhenAllReady ==
    variant = "sugar" =>
        \A t \in Tasks : spawned[t] > 0 => AllInputsReady(t)

\* C7: no node is notified twice, only nodes whose registration returned true
\* are notified, and when set_ready has returned the nodes of that cont that
\* were notified are exactly those whose registration returned true.
C7_NotifiedOncePerRegistration ==
    /\ \A n \in NodeAddrs :
        /\ notified[n] <= 1
        /\ reg_result[n] # "true" => notified[n] = 0
    /\ \A c \in Conts : spc[c] = "done" =>
        \A n \in NodesOn(c) : notified[n] = IF reg_result[n] = "true" THEN 1 ELSE 0

\* C7 witness: set_ready has returned on a cont on which one registration
\* succeeded and another one failed, with more than one notification delivered
\* by that thread or another.
C7_Witness ==
    \E c \in Conts :
        /\ spc[c] = "done"
        /\ \E n, m \in NodesOn(c) :
            /\ reg_result[n] = "true"
            /\ notified[n] = 1
            /\ reg_result[m] = "false"

\* set_ready has been called on c and got past its assertion.
SetReadyRunning(c) == spc[c] \notin {"idle", "assert_failed"}

\* When set_ready has returned, every node registered on its cont was visited.
C8_NoRegisteredNodeLeftBehind ==
    \A c \in Conts : spc[c] = "done" =>
        \A n \in NodesOn(c) : reg_result[n] = "true" => notified[n] = 1

\* C8: a node whose registration returned true, on a cont on which set_ready
\* is called, is eventually notified; and there is no state in which
\* set_ready has returned and a registered node of its cont was not visited.
C8_RegisteredEventuallyNotified ==
    /\ \A n \in NodeAddrs :
        (reg_result[n] = "true" /\ SetReadyRunning(ContOf(n))) ~> (notified[n] = 1)
    /\ []C8_NoRegisteredNodeLeftBehind

\* C8 witness: set_ready has returned on a cont on which two nodes were
\* registered, and both have been notified.
C8_Witness ==
    \E c \in Conts :
        /\ spc[c] = "done"
        /\ Cardinality({n \in NodesOn(c) : reg_result[n] = "true" /\ notified[n] = 1}) >= 2

\* C9: in the looping copies, once spawn_when_ready has been called on a task
\* with N >= 1 inputs and set_ready has been called on each of its inputs,
\* the task is eventually spawned.
C9_JoinEventuallySpawns ==
    \A t \in Tasks :
        (/\ variant \in LoopVariants
         /\ num_conts(t) >= 1
         /\ jpc[t] # "call"
         /\ \A c \in InputsOf(t) : SetReadyRunning(c))
        ~> (spawned[t] >= 1)

\* C9 witness: a task joined on several conts, one found ready by the
\* registration loop and one registered and notified later, has been spawned.
C9_Witness ==
    /\ variant \in LoopVariants
    /\ \E t \in Tasks :
        /\ num_conts(t) >= 2
        /\ JoinFinished(t)
        /\ num_inputs_already_ok[t] = 1
        /\ \E i \in 1..num_conts(t) : notified[NodeAddr(t, i)] = 1
        /\ spawned[t] >= 1

\* C10: in src/tbbtest/main.cpp spawn_when_ready with num_conts = 0 attempts
\* no registration and has spawned the task exactly once when it returns; the
\* task is spawned by that call and by nothing else.
C10_NoInputsSpawnsInCall ==
    variant = "tbbtest" =>
        \A t \in Tasks : num_conts(t) = 0 =>
            /\ spawned[t] = IF jpc[t] = "done" THEN 1 ELSE 0
            /\ jpc[t] \in {"call", "bulk", "done"}
            /\ \A i \in 1..MaxInputs :
                /\ reg_result[NodeAddr(t, i)] = "none"
                /\ node_task[NodeAddr(t, i)] = NoTask

\* C10 witness: spawn_when_ready with no conts has returned.
C10_Witness ==
    /\ variant = "tbbtest"
    /\ \E t \in Tasks :
        /\ num_conts(t) = 0
        /\ jpc[t] = "done"
        /\ spawned[t] = 1

\* C11: in src/sugar/main.cpp and src/sugar/define_task_block_example.h
\* spawn_when_ready with num_conts = 0 has spawned the task when it returns.
C11_GuardedNoInputsSpawnsInCall ==
    variant \in {"sugar", "example"} =>
        \A t \in Tasks : (num_conts(t) = 0 /\ jpc[t] = "done") => spawned[t] = 1

\* C12: in the looping copies, when spawn_when_ready is called on N >= 2 conts
\* of which at least one is already ready, at least one registration fails, the
\* task is never spawned twice, it is spawned only when all its conts are
\* closed, and it has been spawned exactly once when spawn_when_ready and the
\* set_ready of every remaining cont have returned.
C12_PartlyReadyJoinSpawnsOnce ==
    variant \in LoopVariants =>
        \A t \in Tasks :
            (num_conts(t) >= 2 /\ jpc[t] # "call" /\ ready_at_call[t] # {}) =>
                /\ spawned[t] <= 1
                /\ spawned[t] > 0 => AllInputsReady(t)
                /\ jpc[t] \in {"bulk", "done"} => num_inputs_already_ok[t] >= 1
                /\ JoinFinished(t) => spawned[t] = 1

\* C12 witness: in src/tbbtest/main.cpp a join on two conts, one ready at the
\* call and one open, registered on the open one, was notified by its
\* set_ready and has been spawned once.
C12_Witness ==
    /\ variant = "tbbtest"
    /\ \E t \in Tasks :
        /\ num_conts(t) >= 2
        /\ Cardinality(ready_at_call[t]) = 1
        /\ JoinFinished(t)
        /\ \E i \in 1..num_conts(t) :
            /\ conts[t][i] \notin ready_at_call[t]
            /\ reg_result[NodeAddr(t, i)] = "true"
            /\ notified[NodeAddr(t, i)] = 1
        /\ spawned[t] = 1

\* C13: of two invocations of set_ready on the same cont at most one gets past
\* assert(!is_ready()), and no invocation walks the chain from the tagged head
\* (none reads through a tagged pointer).
C13_SecondSetReadyOnlyAsserts ==
    \A s, r \in Setters :
        (s # r /\ SetterCont(s) = SetterCont(r)) =>
            /\ ~(SetReadyRunning(s) /\ SetReadyRunning(r))
            /\ spc[s] = "notify" => ~TagBit(node[s])
            /\ spc[s] \notin {"fault", "corrupted"}

\* The producer of c did not call set_ready before it had emplaced a value.
EmplacedBeforeSetReady(c) == SetReadyRunning(c) => _has_value[c]

\* C14: in the looping copies, when the producers emplace before they call
\* set_ready, a task that has started executing read from each of its conts
\* the one constructed value its producer emplaced, and the cont is ready and
\* still holds that value.
C14_ExecutedTaskReadEmplacedValues ==
    \A t \in Tasks :
        (executed[t] > 0 /\ \A c \in InputsOf(t) : EmplacedBeforeSetReady(c)) =>
            \A i \in 1..num_conts(t) :
                /\ is_ready(conts[t][i])
                /\ _has_value[conts[t][i]]
                /\ received[t][i] \in Values
                /\ _storage[conts[t][i]] = <<received[t][i]>>

\* C14 witness: a task joined on two conts that hold different values has
\* executed; it found one cont ready at registration and was notified by the
\* set_ready of the other.
C14_Witness ==
    \E t \in Tasks :
        /\ num_conts(t) = 2
        /\ executed[t] = 1
        /\ \A c \in InputsOf(t) : _has_value[c]
        /\ received[t][1] # received[t][2]
        /\ \E i, j \in 1..2 :
            /\ reg_result[NodeAddr(t, i)] = "false"
            /\ notified[NodeAddr(t, j)] = 1

\* is_ready() is false before the closing CAS of set_ready and true after it.
C15_ReadyIffClosed ==
    \A c \in Conts : is_ready(c) <=> spc[c] \in {"notify", "done"}

\* No step takes a cont from ready to not ready.
C15_ReadyStaysReady ==
    \A c \in Conts : is_ready(c) => TagBit(_head'[c])

\* C15: is_ready() is monotone: false in every state before the successful
\* closing CAS of set_ready, true in every state after it, and no step of
\* any thread, registrations included, makes it false again.
C15_IsReadyMonotone == []C15_ReadyIffClosed /\ [][C15_ReadyStaysReady]_vars

\* C15 witness: two registrations were attempted on a cont after it was
\* closed, both returned false, and the cont is still ready.
C15_Witness ==
    \E c \in Conts :
        /\ is_ready(c)
        /\ \E n, m \in NodesOn(c) :
            /\ n # m
            /\ reg_result[n] = "false"
            /\ reg_result[m] = "false"

\* C16 as stated: an iteration of either CAS loop is retried only when _head
\* no longer holds the value the thread loaded.
C16_RetryOnlyAfterChange ==
    [][/\ \A t \in Tasks :
            (jpc[t] = "cas" /\ jpc'[t] = "load" /\ cont_i'[t] = cont_i[t])
                => _head[CurCont(t)] # reg_old_head[t]
       /\ \A c \in Conts :
            (spc[c] = "cas" /\ spc'[c] = "load") => _head[c] # old_head[c]]_vars

\* No thread is inside spawn_when_ready (hence none inside
\* try_register_successor) and none inside set_ready.
NoCallInProgress ==
    /\ \A t \in Tasks : jpc[t] \in {"call", "done"}
    /\ \A c \in Conts : spc[c] \in {"idle", "done"}

\* C16: in the looping copies every call returns after finitely many
\* iterations when running threads keep taking steps and compare_exchange_weak
\* does not fail spuriously for ever: whatever calls are made, again and again
\* (and, each thread making one call, finally for ever) no thread is inside
\* spawn_when_ready, try_register_successor or set_ready.
C16_CallsReturn == []<>NoCallInProgress

\* C16 witness: set_ready is about to lose its CAS to a successor that was
\* registered after its load, while another thread is inside the CAS loop of
\* try_register_successor.
C16_Witness ==
    \E c \in Conts :
        /\ spc[c] = "cas"
        /\ _head[c] # old_head[c]
        /\ \E t \in Tasks : jpc[t] = "cas" /\ reg_old_head[t] # NULL

\* C17: as long as no assertion has failed, a ready cont has _has_value set
\* and holds exactly one constructed value.
C17_ReadyHoldsOneValue ==
    ~Halted =>
        \A c \in Conts : is_ready(c) => (_has_value[c] /\ Len(_storage[c]) = 1)

\* The storage holds one object when _has_value is set and none otherwise.
C18_OneValueIffHasValue ==
    \A c \in Conts : Len(_storage[c]) = IF _has_value[c] THEN 1 ELSE 0

\* What a call of emplace does: on a ready cont it ends in the failed
\* assertion with _storage and _has_value as they were; on an open cont it
\* leaves the value it was given as the only object in the storage.
C18_EmplaceStep ==
    \A c \in Conts, v \in Values :
        Emplace(c, v) =>
            IF is_ready(c)
            THEN /\ spc'[c] = "emplace_assert_failed"
                 /\ _storage'[c] = _storage[c]
                 /\ _has_value'[c] = _has_value[c]
            ELSE /\ spc'[c] = spc[c]
                 /\ _storage'[c] = <<v>>
                 /\ _has_value'[c]

\* C18: emplace on a ready cont fails its assertion and leaves the stored
\* value and _has_value unchanged; emplace on an open cont, called once or
\* several times, leaves exactly one constructed value, the last one emplaced.
C18_EmplaceKeepsOneValue == []C18_OneValueIffHasValue /\ [][C18_EmplaceStep]_vars

\* C18 witness: emplace was called on a cont that was closed with a value and
\* failed its assertion, the value still there, while another cont, still
\* open, holds a different value.
C18_Witness ==
    \E c, d \in Conts :
        /\ spc[c] = "emplace_assert_failed"
        /\ is_ready(c)
        /\ _has_value[c]
        /\ ~is_ready(d)
        /\ _has_value[d]
        /\ _storage[d] # _storage[c]

\* C19: when all N >= 1 conts are ready at the call of spawn_when_ready, no
\* registration reaches its CAS or returns true, no node of the task is linked
\* or notified, the count stays N until the bulk add_ref_count(-N) takes it to
\* zero, and the task has been spawned exactly once, by that statement, when
\* spawn_when_ready returns.
C19_AllReadySpawnsInCall ==
    \A t \in Tasks :
        (num_conts(t) >= 1 /\ jpc[t] # "call" /\ ready_at_call[t] = InputsOf(t)) =>
            /\ jpc[t] # "cas"
            /\ \A i \in 1..num_conts(t) :
                /\ reg_result[NodeAddr(t, i)] # "true"
                /\ notified[NodeAddr(t, i)] = 0
                /\ NodeAddr(t, i) \notin Chain(conts[t][i])
            /\ jpc[t] = "bulk" => num_inputs_already_ok[t] = num_conts(t)
            /\ jpc[t] # "done" => (spawned[t] = 0 /\ ref_count[t] = num_conts(t))
            /\ jpc[t] = "done" => (spawned[t] = 1 /\ ref_count[t] = 0)

\* C19 witness: spawn_when_ready has returned on a task whose two conts were
\* both ready at the call, one of them with another task's node notified.
C19_Witness ==
    \E t \in Tasks :
        /\ num_conts(t) = 2
        /\ Cardinality(ready_at_call[t]) = 2
        /\ jpc[t] = "done"
        /\ spawned[t] = 1
        /\ \E n \in NodeAddrs : OwnerOf(n) # t /\ notified[n] = 1

\* The decrements the broadcasts have made through the nodes of task t.
NotifiedOf(t) == Cardinality({i \in 1..num_conts(t) : notified[NodeAddr(t, i)] >= 1})

\* While the registration loop of spawn_when_ready runs, the count is N less
\* the broadcasts' decrements, it is at least one, and the task is not spawned.
C20_CountHeldDuringLoop ==
    \A t \in Tasks :
        jpc[t] \in {"load", "cas"} =>
            /\ ref_count[t] = num_conts(t) - NotifiedOf(t)
            /\ NotifiedOf(t) < cont_i[t]
            /\ ref_count[t] >= 1
            /\ spawned[t] = 0

\* A step of the registering thread inside the loop leaves the ref count of
\* its task alone.
C20_LoopStepKeepsCount ==
    \A t \in Tasks :
        (TryRegisterLoad(t) \/ TryRegisterCasSuccess(t) \/ TryRegisterCasFail(t))
            => ref_count'[t] = ref_count[t]

\* C20: inside the registration loop of spawn_when_ready the registering
\* thread does not change the task's ref count, and until registration has
\* been attempted on all N conts the count stays above zero and the task is
\* not spawned, whatever set_ready calls run meanwhile.
C20_NoSpawnBeforeLoopEnds == []C20_CountHeldDuringLoop /\ [][C20_LoopStepKeepsCount]_vars

\* C20 witness: the registering thread is at the CAS of its last registration
\* while a broadcast has already decremented the task through an earlier node.
C20_Witness ==
    \E t \in Tasks :
        /\ jpc[t] = "cas"
        /\ cont_i[t] = num_conts(t)
        /\ notified[NodeAddr(t, 1)] = 1
        /\ ref_count[t] = 1

\* A step from a state in which c is closed leaves _head[c] as it is, and a
\* step in which a try_register_successor returns false leaves every _head
\* as it is.
C21_ClosedHeadStep ==
    /\ \A c \in Conts : is_ready(c) => _head'[c] = _head[c]
    /\ \A n \in NodeAddrs :
        (reg_result[n] = "none" /\ reg_result'[n] = "false") => _head' = _head

\* C21: after the successful CAS of set_ready the value of _head never
\* changes again, and a try_register_successor call that returns false does
\* not write _head.
C21_ClosedHeadIsFinal == [][C21_ClosedHeadStep]_vars

\* C21 witness: set_ready has returned on a cont whose captured chain is not
\* empty, a registration attempted on it afterwards returned false, and
\* _head still holds the tagged pointer to the chain.
C21_Witness ==
    \E c \in Conts :
        /\ spc[c] = "done"
        /\ Chain(c) # {}
        /\ _head[c] = ReadyHead(Untag(_head[c]))
        /\ \E n \in NodesOn(c) : reg_result[n] = "false" /\ n \notin Chain(c)

\* The nodes linked from pointer p through the next fields nx, in list order.
RECURSIVE ListFrom(_, _, _)
ListFrom(p, nx, fuel) ==
    IF p = NULL \/ fuel = 0 THEN <<>> ELSE <<p>> \o ListFrom(nx[p], nx, fuel - 1)

\* The chain of c as a sequence, the node _head points to first.
ChainList(c) == ListFrom(Untag(_head[c]), node_next, Cardinality(NodeAddrs))

\* A successful registration CAS puts its node in front of the chain as it
\* was: the chain lists the nodes in reverse order of registration.
C22_PushesInFront ==
    \A c \in Conts :
        (~is_ready(c) /\ _head'[c] # _head[c] /\ ~TagBit(_head'[c])) =>
            ListFrom(_head'[c], node_next', Cardinality(NodeAddrs))
                = <<_head'[c]>> \o ChainList(c)

\* A notification goes to the first node of the chain that is not yet
\* notified: every node in front of it has been notified, no node behind it.
C22_NotifiesInListOrder ==
    \A n \in NodeAddrs :
        notified'[n] = notified[n] + 1 =>
            LET sq == ChainList(ContOf(n))
            IN \E k \in 1..Len(sq) :
                /\ sq[k] = n
                /\ \A j \in 1..(k - 1) : notified[sq[j]] = 1
                /\ \A j \in k..Len(sq) : notified[sq[j]] = 0

\* C22: the broadcast of set_ready visits the registered nodes in reverse
\* order of their successful registration CAS: every registration pushes its
\* node in front of the chain, and every notification goes to the first node
\* of the chain not yet notified.
C22_BroadcastIsLastInFirstOut ==
    [][C22_PushesInFront /\ C22_NotifiesInListOrder]_vars

\* C22 witness: in the middle of a broadcast over a chain of two nodes, the
\* node registered last has been notified and the one registered first not yet.
C22_Witness ==
    \E c \in Conts :
        /\ spc[c] = "notify"
        /\ Len(ChainList(c)) = 2
        /\ notified[ChainList(c)[1]] = 1
        /\ notified[ChainList(c)[2]] = 0
        /\ node[c] = ChainList(c)[2]

\* C23: when set_ready reads node->next, the task that holds the node has not
\* been executed and freed.
C23_NextReadWhileNodeAlive ==
    \A s \in Setters :
        spc[s] = "advance" => ~TaskFreed(NodeOwner(node[s]))

\* The amount the bulk add_ref_count of spawn_when_ready(t, ...) has
\* subtracted so far.
BulkSubtracted(t) == IF jpc[t] = "done" THEN num_inputs_already_ok[t] ELSE 0

\* C24: once spawn_when_ready has added N to the ref count of a task, the
\* count is N less the notifications delivered to its nodes less the bulk
\* amount already subtracted, it is never negative, and every input is
\* accounted for at most once: a node is notified at most once, a node whose
\* registration returned false (an input counted in the bulk amount) is never
\* notified, and the bulk amount is the number of such nodes.
C24_RefCountAccounting ==
    \A t \in Tasks :
        jpc[t] # "call" =>
            /\ ref_count[t] = num_conts(t) - NotifiedOf(t) - BulkSubtracted(t)
            /\ ref_count[t] >= 0
            /\ \A i \in 1..num_conts(t) :
                /\ notified[NodeAddr(t, i)] <= 1
                /\ reg_result[NodeAddr(t, i)] = "false" => notified[NodeAddr(t, i)] = 0
            /\ jpc[t] \in {"bulk", "done"} =>
                num_inputs_already_ok[t] =
                    Cardinality({i \in 1..num_conts(t) : reg_result[NodeAddr(t, i)] = "false"})

\* C24 witness: a task joined on two conts, one input accounted for by a
\* notification and the other still to be subtracted by the bulk
\* add_ref_count, with a count of one.
C24_Witness ==
    \E t \in Tasks :
        /\ num_conts(t) = 2
        /\ jpc[t] = "bulk"
        /\ num_inputs_already_ok[t] = 1
        /\ NotifiedOf(t) = 1
        /\ ref_count[t] = 1

\* The nodes for which try_register_successor has returned true on cont c.
C25_Registered(c) == {n \in NodesOn(c) : reg_result[n] = "true"}

\* C25: every node being used for one registration only, the chain from
\* _head without its tag bit is a finite list without a cycle (no node is in
\* it twice and its last node has a NULL next) that holds exactly the nodes
\* for which try_register_successor has returned true on that cont, each with
\* its task field set; a node whose CAS is still to be tried or retried is in
\* no chain.
C25_ChainWellFormed ==
    \A c \in Conts :
        LET l == ChainList(c) IN
            /\ \A i, j \in 1..Len(l) : l[i] = l[j] => i = j
            /\ Len(l) > 0 => node_next[l[Len(l)]] = NULL
            /\ {l[i] : i \in 1..Len(l)} = C25_Registered(c)
            /\ \A i \in 1..Len(l) : node_task[l[i]] = OwnerOf(l[i])
            /\ \A t \in Tasks :
                (jpc[t] \in {"load", "cas"} /\ CurCont(t) = c) =>
                    \A i \in 1..Len(l) : l[i] # CurNode(t)

\* C25 witness: a registration whose CAS is about to fail because another
\* node has been pushed since it loaded _head, its node pointing at the old
\* head (NULL) and not linked, with the other node in the chain.
C25_Witness ==
    \E c \in Conts, t \in Tasks :
        /\ jpc[t] = "cas"
        /\ CurCont(t) = c
        /\ reg_old_head[t] # _head[c]
        /\ ~is_ready(c)
        /\ node_next[CurNode(t)] = NULL
        /\ Len(ChainList(c)) = 1

=============================================================================
